---- MODULE Spec2Model ----
(***************************************************************************)
(* Model of the local data-access layer (src/src/services/dataService.ts)  *)
(* and of the test-run execution workflow                                  *)
(* (src/src/components/TestRuns/TestRunExecutor.tsx,                       *)
(*  src/src/components/TestRuns/EnhancedTestRunsList.tsx).                 *)
(*                                                                         *)
(* Entities are records whose set of fields varies, as JavaScript objects  *)
(* do: an optional field that is undefined is simply not in the record's   *)
(* DOMAIN (JSON.stringify drops it).  Identifiers are integers: uuidv4()   *)
(* is a counter, 0 is the empty string '' the run form gives an execution, *)
(* identifiers above 900 come from imported snapshots or from callers.     *)
(* Timestamps are readings of the clock `now` (ISO-8601 strings order as   *)
(* the instants they denote).                                              *)
(***************************************************************************)
EXTENDS Integers, Sequences, FiniteSets, TLC

VARIABLES
    testCases,          \* localStorage tcmt_test_cases
    testSuites,         \* localStorage tcmt_test_suites
    testRuns,           \* localStorage tcmt_test_runs
    executions,         \* localStorage tcmt_test_executions
    history,            \* localStorage tcmt_history
    auditLogs,          \* localStorage tcmt_audit_logs
    uuid,               \* number of identifiers uuidv4() has handed out
    now,                \* the clock read by new Date()
    listRuns,           \* EnhancedTestRunsList: testRuns state (last loadData)
    selectedRun,        \* EnhancedTestRunsList: selectedRun, the executor's testRun prop
    isExecutorOpen,     \* EnhancedTestRunsList: isExecutorOpen
    currentIndex,       \* TestRunExecutor: currentIndex state
    isRunning,          \* TestRunExecutor: isRunning state
    executionStartTime, \* TestRunExecutor: executionStartTime state (0 = null)
    toast,              \* title of the last toast shown
    lastOp,             \* history variable: the handler that ran last, and how it ended
    nUpdates,           \* history variable: id -> successful updates since creation
    script,             \* history variable: handlers run in the current executor session
    faults              \* history variable: writes localStorage has rejected

storeVars == <<testCases, testSuites, testRuns, executions, history, auditLogs>>
uiVars    == <<listRuns, selectedRun, isExecutorOpen, currentIndex, isRunning,
               executionStartTime, toast>>
vars      == <<testCases, testSuites, testRuns, executions, history, auditLogs, uuid, now,
               listRuns, selectedRun, isExecutorOpen, currentIndex, isRunning,
               executionStartTime, toast, lastOp, nUpdates, script, faults>>

(***************************************************************************)
(* Bounds of the model and constants of the program.                       *)
(***************************************************************************)
MaxClock  == 2      \* the clock stops advancing here
MaxCases  == 2      \* test cases created through saveTestCase
MaxWrites == 4      \* audit entries appended in the test-case specification
MaxFaults == 1      \* writes localStorage rejects in one behaviour
AUDIT_CAP == 1000   \* logAudit keeps the last 1000 entries
HISTORY_CAP == 100  \* saveHistory keeps the last 100 records per test case
NONE == 0           \* null / '' / an unset timestamp
UNDEFINED == -1     \* an explicit `undefined` property value

Min(a, b) == IF a < b THEN a ELSE b
Max(a, b) == IF a > b THEN a ELSE b

\* Array.prototype.slice(-n): the last n elements.
LastN(s, n) == SubSeq(s, Max(1, Len(s) - n + 1), Len(s))

\* Array.prototype.findIndex, 1-based; 0 when nothing matches (-1 in the code).
FindIndex(s, id) ==
    LET hits == {i \in 1..Len(s) : "id" \in DOMAIN s[i] /\ s[i].id = id}
    IN  IF hits = {} THEN 0 ELSE CHOOSE i \in hits : \A j \in hits : i <= j

\* Object spread {...a, ...b}: b's own properties override a's.
Spread(a, b) ==
    [k \in (DOMAIN a) \cup (DOMAIN b) |-> IF k \in DOMAIN b THEN b[k] ELSE a[k]]

\* The optional timestamps, the only properties the code sets to undefined.
OptionalStamps == {"startedAt", "completedAt", "pausedAt"}

\* The optional properties the code may set to undefined.
OptionalProps == OptionalStamps \cup {"parentId"}

\* JSON.stringify / JSON.parse round trip of an object: undefined properties vanish.
Jsonify(r) ==
    [k \in {q \in DOMAIN r : ~(q \in OptionalProps /\ r[q] = UNDEFINED)} |-> r[k]]

(***************************************************************************)
(* The store threaded through one handler: the collections, the uuid       *)
(* counter, the clock, and the fate of its writes.  `budget` is the number *)
(* of setToStorage calls localStorage still accepts (UNDEFINED: all of     *)
(* them); `thrown` says setToStorage has thrown, after which the rest of   *)
(* the handler does not run.                                               *)
(***************************************************************************)
Store(budget) ==
    [testCases |-> testCases, testSuites |-> testSuites, testRuns |-> testRuns,
     executions |-> executions,
     history |-> history, auditLogs |-> auditLogs, uuid |-> uuid, now |-> now,
     budget |-> budget, thrown |-> FALSE, ret |-> NONE]

SetToStorage_Swallows(s, key, value) ==
    IF s.thrown \/ s.budget = 0 THEN s
    ELSE [s EXCEPT ![key] = value, !.budget = IF @ > 0 THEN @ - 1 ELSE @]

SetToStorage(s, key, value) ==
    IF s.thrown THEN s
    ELSE IF s.budget = 0 THEN [s EXCEPT !.thrown = TRUE]
    ELSE [s EXCEPT ![key] = value, !.budget = IF @ > 0 THEN @ - 1 ELSE @]

\* logs.push(auditLog); if (logs.length > 1000) logs.splice(0, logs.length - 1000)
CapAudit_KeepsOldest(logs) ==
    IF Len(logs) > AUDIT_CAP THEN SubSeq(logs, 1, AUDIT_CAP) ELSE logs

CapAudit(logs) ==
    IF Len(logs) > AUDIT_CAP
    THEN SubSeq(logs, Len(logs) - AUDIT_CAP + 1, Len(logs))
    ELSE logs

LogAudit_NoEntity(s, action, entityType, entityId) ==
    IF s.thrown THEN s
    ELSE LET auditLog == [id |-> s.uuid + 1, action |-> action,
                          entityType |-> entityType, entityId |-> NONE,
                          timestamp |-> s.now]
             logs == CapAudit(Append(s.auditLogs, auditLog))
         IN  SetToStorage([s EXCEPT !.uuid = @ + 1], "auditLogs", logs)

LogAudit(s, action, entityType, entityId) ==
    IF s.thrown THEN s
    ELSE LET auditLog == [id |-> s.uuid + 1, action |-> action,
                          entityType |-> entityType, entityId |-> entityId,
                          timestamp |-> s.now]
             logs == CapAudit(Append(s.auditLogs, auditLog))
         IN  SetToStorage([s EXCEPT !.uuid = @ + 1], "auditLogs", logs)

SaveHistory(s, testCase, changeType) ==
    IF s.thrown THEN s
    ELSE LET historyRecord == [id |-> s.uuid + 1, testCaseId |-> testCase.id,
                               version |-> testCase.version, changes |-> testCase,
                               changedAt |-> s.now, changeType |-> changeType]
             all == Append(s.history, historyRecord)
             Mine(h) == h.testCaseId = testCase.id
             NotMine(h) == h.testCaseId # testCase.id
             filtered == LastN(SelectSeq(all, Mine), HISTORY_CAP)
             others == SelectSeq(all, NotMine)
         IN  SetToStorage([s EXCEPT !.uuid = @ + 1], "history", others \o filtered)

(***************************************************************************)
(* Test cases.                                                             *)
(***************************************************************************)
Field(r, k, default) == IF k \in DOMAIN r THEN r[k] ELSE default

\* The update branch's object: caller fields over the stored ones, then
\* updatedAt and version.
UpdatedTestCase_CallerVersion(existing, testCase, t) ==
    Spread(Spread(existing, [updatedAt |-> t, version |-> existing.version + 1]),
           testCase)

UpdatedTestCase(existing, testCase, t) ==
    Spread(Spread(existing, testCase),
           [updatedAt |-> t, version |-> existing.version + 1])

\* suiteId: testCase.suiteId is undefined, and so not stored, when not given.
NewTestCase(id, testCase, t) ==
    Spread([id |-> id,
            title |-> Field(testCase, "title", ""),
            priority |-> Field(testCase, "priority", "Medium"),
            status |-> Field(testCase, "status", "Draft"),
            createdAt |-> t, updatedAt |-> t, version |-> 1],
           IF "suiteId" \in DOMAIN testCase
           THEN [suiteId |-> testCase.suiteId] ELSE <<>>)

SaveTestCase(s, testCase) ==
    LET index == IF "id" \in DOMAIN testCase /\ testCase.id # NONE
                 THEN FindIndex(s.testCases, testCase.id) ELSE 0
    IN  IF index > 0
        THEN LET updated == UpdatedTestCase(s.testCases[index], testCase, s.now)
                 s1 == SetToStorage(s, "testCases",
                                    [s.testCases EXCEPT ![index] = updated])
                 s2 == LogAudit(s1, "Updated test case", "TestCase", updated.id)
                 s3 == SaveHistory(s2, updated, "Updated")
             IN  [s3 EXCEPT !.ret = updated]
        ELSE LET newTestCase == NewTestCase(s.uuid + 1, testCase, s.now)
                 s0 == [s EXCEPT !.uuid = @ + 1]
                 s1 == SetToStorage(s0, "testCases", Append(s.testCases, newTestCase))
                 s2 == LogAudit(s1, "Created test case", "TestCase", newTestCase.id)
                 s3 == SaveHistory(s2, newTestCase, "Created")
             IN  [s3 EXCEPT !.ret = newTestCase]

\* testCases.splice(index, 1)
RemoveAt_Last(s, index) == SubSeq(s, 1, Len(s) - 1)

RemoveAt(s, index) == SubSeq(s, 1, index - 1) \o SubSeq(s, index + 1, Len(s))

DeleteTestCase(s, id) ==
    LET index == FindIndex(s.testCases, id)
    IN  IF index > 0
        THEN LET deleted == s.testCases[index]
                 s1 == SetToStorage(s, "testCases", RemoveAt(s.testCases, index))
                 s2 == LogAudit(s1, "Deleted test case", "TestCase", id)
                 s3 == SaveHistory(s2, deleted, "Deleted")
             IN  [s3 EXCEPT !.ret = TRUE]
        ELSE [s EXCEPT !.ret = FALSE]

(***************************************************************************)
(* Test suites.  Of a suite the model keeps id, name, parentId and the     *)
(* timestamps.                                                             *)
(***************************************************************************)
\* { ...suites[index], ...suite, updatedAt: now }
UpdatedSuite(stored, suite, t) ==
    Spread(Spread(stored, suite), [updatedAt |-> t])

\* The create branch takes its own id: the caller's id is not copied.
NewSuite_FixedId(id, suite, t) ==
    [id |-> 1, name |-> Field(suite, "name", ""),
     parentId |-> Field(suite, "parentId", UNDEFINED),
     createdAt |-> t, updatedAt |-> t]

NewSuite(id, suite, t) ==
    [id |-> id, name |-> Field(suite, "name", ""),
     parentId |-> Field(suite, "parentId", UNDEFINED),
     createdAt |-> t, updatedAt |-> t]

SaveTestSuite(s, suite) ==
    LET index == IF "id" \in DOMAIN suite /\ suite.id # NONE
                 THEN FindIndex(s.testSuites, suite.id) ELSE 0
    IN  IF s.thrown THEN s
        ELSE IF index > 0
        THEN LET updated == Jsonify(UpdatedSuite(s.testSuites[index], suite, s.now))
                 s1 == SetToStorage(s, "testSuites",
                                    [s.testSuites EXCEPT ![index] = updated])
                 s2 == LogAudit(s1, "Updated test suite", "TestSuite", updated.id)
             IN  [s2 EXCEPT !.ret = updated]
        ELSE LET newSuite == Jsonify(NewSuite(s.uuid + 1, suite, s.now))
                 s0 == [s EXCEPT !.uuid = @ + 1]
                 s1 == SetToStorage(s0, "testSuites", Append(s.testSuites, newSuite))
                 s2 == LogAudit(s1, "Created test suite", "TestSuite", newSuite.id)
             IN  [s2 EXCEPT !.ret = newSuite]

DeleteTestSuite_Cascades(s, id) ==
    LET index == FindIndex(s.testSuites, id)
        Kept(tc) == Field(tc, "suiteId", NONE) # id
    IN  IF index > 0
        THEN LET s0 == [s EXCEPT !.testCases = SelectSeq(s.testCases, Kept)]
                 s1 == SetToStorage(s0, "testSuites", RemoveAt(s.testSuites, index))
                 s2 == LogAudit(s1, "Deleted test suite", "TestSuite", id)
             IN  [s2 EXCEPT !.ret = TRUE]
        ELSE [s EXCEPT !.ret = FALSE]

DeleteTestSuite(s, id) ==
    LET index == FindIndex(s.testSuites, id)
    IN  IF index > 0
        THEN LET s1 == SetToStorage(s, "testSuites", RemoveAt(s.testSuites, index))
                 s2 == LogAudit(s1, "Deleted test suite", "TestSuite", id)
             IN  [s2 EXCEPT !.ret = TRUE]
        ELSE [s EXCEPT !.ret = FALSE]

(***************************************************************************)
(* Test runs and executions.  Of a run the model keeps id, executions,     *)
(* status, currentExecutionIndex and the timestamps; of an execution id,   *)
(* testCaseId, status, comments, actualResult, executedAt and runId.       *)
(***************************************************************************)
\* The update branch's object: { ...runs[index], ...run, updatedAt: now }.
UpdatedRun(stored, run, t) ==
    Spread(Spread(stored, run), [updatedAt |-> t])

\* The create branch copies name, description, suiteId, executions and
\* completedAt only: status and currentExecutionIndex are not copied.
NewRun(id, run, t) ==
    Spread([id |-> id, executions |-> Field(run, "executions", <<>>),
            createdAt |-> t, updatedAt |-> t],
           IF "completedAt" \in DOMAIN run
           THEN [completedAt |-> run.completedAt] ELSE <<>>)

SaveTestRun(s, run) ==
    LET index == IF "id" \in DOMAIN run /\ run.id # NONE
                 THEN FindIndex(s.testRuns, run.id) ELSE 0
    IN  IF s.thrown THEN s
        ELSE IF index > 0
        THEN LET updated == Jsonify(UpdatedRun(s.testRuns[index], run, s.now))
                 s1 == SetToStorage(s, "testRuns",
                                    [s.testRuns EXCEPT ![index] = updated])
                 s2 == LogAudit(s1, "Updated test run", "TestRun", updated.id)
             IN  [s2 EXCEPT !.ret = updated]
        ELSE LET newRun == Jsonify(NewRun(s.uuid + 1, run, s.now))
                 s0 == [s EXCEPT !.uuid = @ + 1]
                 s1 == SetToStorage(s0, "testRuns", Append(s.testRuns, newRun))
                 s2 == LogAudit(s1, "Created test run", "TestRun", newRun.id)
             IN  [s2 EXCEPT !.ret = newRun]

NewExecution(id, execution, t) ==
    [id |-> id,
     testCaseId |-> Field(execution, "testCaseId", NONE),
     status |-> Field(execution, "status", "Not Executed"),
     comments |-> Field(execution, "comments", ""),
     executedAt |-> t,
     runId |-> Field(execution, "runId", NONE)]

SaveTestExecution(s, execution) ==
    LET index == IF "id" \in DOMAIN execution /\ execution.id # NONE
                 THEN FindIndex(s.executions, execution.id) ELSE 0
    IN  IF s.thrown THEN s
        ELSE IF index > 0
        THEN LET updated == Spread(s.executions[index], execution)
                 s1 == SetToStorage(s, "executions",
                                    [s.executions EXCEPT ![index] = updated])
                 s2 == LogAudit(s1, "Updated test execution", "TestExecution",
                                updated.id)
             IN  [s2 EXCEPT !.ret = updated]
        ELSE LET newExecution == NewExecution(s.uuid + 1, execution, s.now)
                 s0 == [s EXCEPT !.uuid = @ + 1]
                 s1 == SetToStorage(s0, "executions",
                                    Append(s.executions, newExecution))
                 s2 == LogAudit(s1, "Created test execution", "TestExecution",
                                newExecution.id)
             IN  [s2 EXCEPT !.ret = newExecution]

(***************************************************************************)
(* Backup and restore.  `data` is the parsed snapshot: a record holding    *)
(* the collections it has.  A write that throws is caught: importData      *)
(* returns false and the writes already made stay.                         *)
(***************************************************************************)
ImportKey_ClearsAbsent(s, data, key) ==
    SetToStorage(s, key, IF key \in DOMAIN data THEN data[key] ELSE <<>>)

ImportKey(s, data, key) ==
    IF key \in DOMAIN data THEN SetToStorage(s, key, data[key]) ELSE s

ImportData_LogsFirst(s, data) ==
    LET s0 == LogAudit(s, "Imported data", "TestCase", NONE)
        s1 == ImportKey(s0, data, "testCases")
        s2 == ImportKey(s1, data, "testSuites")
        s3 == ImportKey(s2, data, "testRuns")
        s4 == ImportKey(s3, data, "executions")
        s5 == ImportKey(s4, data, "history")
        s6 == ImportKey(s5, data, "auditLogs")
    IN  [s6 EXCEPT !.ret = ~s6.thrown, !.thrown = FALSE]

ImportData(s, data) ==
    LET s1 == ImportKey(s, data, "testCases")
        s2 == ImportKey(s1, data, "testSuites")
        s3 == ImportKey(s2, data, "testRuns")
        s4 == ImportKey(s3, data, "executions")
        s5 == ImportKey(s4, data, "history")
        s6 == ImportKey(s5, data, "auditLogs")
        s7 == LogAudit(s6, "Imported data", "TestCase", NONE)
    IN  [s7 EXCEPT !.ret = ~s7.thrown, !.thrown = FALSE]

\* localStorage.removeItem for every key, then one audit entry.
ClearAllData(s) ==
    LogAudit([s EXCEPT !.testCases = <<>>, !.testSuites = <<>>, !.testRuns = <<>>,
                       !.executions = <<>>,
                       !.history = <<>>, !.auditLogs = <<>>],
             "Cleared all data", "TestCase", NONE)

(***************************************************************************)
(* Initial state: an empty localStorage, the list page with no dialog open.*)
(***************************************************************************)
NoRun == [id |-> NONE, executions |-> <<>>]

Init ==
    /\ testCases = <<>> /\ testSuites = <<>> /\ testRuns = <<>>
    /\ executions = <<>>
    /\ history = <<>> /\ auditLogs = <<>>
    /\ uuid = 0 /\ now = 1
    /\ listRuns = <<>> /\ selectedRun = NoRun /\ isExecutorOpen = FALSE
    /\ currentIndex = 0 /\ isRunning = FALSE /\ executionStartTime = NONE
    /\ toast = ""
    /\ lastOp = [op |-> "init"]
    /\ nUpdates = <<>>
    /\ script = [phase |-> "off", records |-> 0]
    /\ faults = 0

\* The handler's writes reach localStorage.
Commit(s) ==
    /\ testCases' = s.testCases /\ testSuites' = s.testSuites
    /\ testRuns' = s.testRuns
    /\ executions' = s.executions /\ history' = s.history
    /\ auditLogs' = s.auditLogs /\ uuid' = s.uuid

\* A handler may meet a rejected write only while the quota of faults lasts.
Faults(budget, s) ==
    /\ budget # UNDEFINED => faults < MaxFaults
    /\ faults' = IF s.thrown THEN faults + 1 ELSE faults

\* Time passes between two handlers.
Tick ==
    /\ now < MaxClock
    /\ now' = now + 1
    /\ lastOp' = [op |-> "tick"]
    /\ UNCHANGED <<storeVars, uuid, uiVars, nUpdates, script, faults>>

(***************************************************************************)
(* Callers of the test-case repository.                                    *)
(***************************************************************************)
\* What a caller may put in the partial besides the id.
TestCaseBodies ==
    { [title |-> "Login"],
      [title |-> "logout", version |-> 7, updatedAt |-> NONE],
      [status |-> "Active", priority |-> "High"] }

StoredIds(coll) == {coll[i].id : i \in 1..Len(coll)}

\* An id no stored record carries.
UnmatchedId == 999

CallSaveTestCase(body, id, budget) ==
    LET testCase == IF id = NONE THEN body ELSE Spread(body, [id |-> id])
        matched  == FindIndex(testCases, id) > 0
        s        == SaveTestCase(Store(budget), testCase)
    IN  /\ matched \/ Len(testCases) < MaxCases
        /\ Commit(s)
        /\ Faults(budget, s)
        /\ lastOp' = [op |-> "saveTestCase", budget |-> budget,
                      thrown |-> s.thrown,
                      matched |-> matched, id |-> id, ret |-> s.ret]
        /\ nUpdates' = IF s.thrown THEN nUpdates
                       ELSE IF matched THEN [nUpdates EXCEPT ![id] = @ + 1]
                       ELSE nUpdates @@ (s.ret.id :> 0)
        /\ UNCHANGED <<now, uiVars, script>>

CallDeleteTestCase(id, budget) ==
    LET s == DeleteTestCase(Store(budget), id)
    IN  /\ Commit(s)
        /\ Faults(budget, s)
        /\ lastOp' = [op |-> "deleteTestCase", budget |-> budget,
                      thrown |-> s.thrown,
                      matched |-> FindIndex(testCases, id) > 0, id |-> id,
                      ret |-> s.ret]
        /\ UNCHANGED <<now, uiVars, nUpdates, script>>

CreateTestCase ==
    \E body \in TestCaseBodies, id \in {NONE, UnmatchedId} :
        CallSaveTestCase(body, id, UNDEFINED)

UpdateTestCase ==
    \E body \in TestCaseBodies, id \in StoredIds(testCases) :
        CallSaveTestCase(body, id, UNDEFINED)

RemoveTestCase ==
    \E id \in StoredIds(testCases) \cup {UnmatchedId} :
        CallDeleteTestCase(id, UNDEFINED)

\* The test-case specification stops once MaxWrites audit entries are stored.
WritesLeft == Len(auditLogs) < MaxWrites

NextCases ==
    \/ Tick
    \/ WritesLeft /\ CreateTestCase
    \/ WritesLeft /\ UpdateTestCase
    \/ WritesLeft /\ RemoveTestCase

SpecCases == Init /\ [][NextCases]_vars

(***************************************************************************)
(* The test-runs page: the run form, the list and its Rerun Failed button. *)
(***************************************************************************)
MaxRuns  == 2       \* runs in storage
MaxAudit == 6       \* audit entries appended in the run specifications

\* onUpdate / loadData: the list reloads the runs; skipped when the handler threw.
LoadData(s) == listRuns' = IF s.thrown THEN listRuns ELSE s.testRuns

\* EnhancedTestRunForm.handleSubmit: one execution per selected test case.
FormExecution(testCaseId) ==
    [id |-> NONE, testCaseId |-> testCaseId, status |-> "Not Executed",
     comments |-> "", executedAt |-> NONE, runId |-> NONE]

FormRun(n) ==
    [status |-> "Not Started", currentExecutionIndex |-> 0,
     executions |-> [i \in 1..n |-> FormExecution(testCases[i].id)]]

\* handleFormSubmit catches what saveTestRun throws and shows an error toast.
HandleFormSubmit(budget) ==
    \E n \in 1..Len(testCases) :
        LET s == SaveTestRun(Store(budget), FormRun(n))
        IN  /\ ~isExecutorOpen
            /\ Len(testRuns) < MaxRuns
            /\ Len(auditLogs) < MaxAudit
            /\ Commit(s)
            /\ Faults(budget, s)
            /\ LoadData(s)
            /\ toast' = IF s.thrown THEN "Error" ELSE "Success"
            /\ lastOp' = [op |-> "createRun", thrown |-> s.thrown]
            /\ UNCHANGED <<now, selectedRun, isExecutorOpen, currentIndex, isRunning,
                           executionStartTime, nUpdates, script>>

IsFail(execution) == execution.status = "Fail"

\* The executions handleRerunFailed writes back.
ResetFailed_All(execs) ==
    [i \in 1..Len(execs) |->
        Spread(execs[i], [status |-> "Not Executed", comments |-> "",
                          actualResult |-> ""])]

ResetFailed(execs) ==
    [i \in 1..Len(execs) |->
        IF execs[i].status = "Fail"
        THEN Spread(execs[i], [status |-> "Not Executed", comments |-> "",
                               actualResult |-> ""])
        ELSE execs[i]]

HandleRerunFailed(budget) ==
    \E r \in 1..Len(listRuns) :
        LET run == listRuns[r]
            failedExecutions == SelectSeq(run.executions, IsFail)
            updatedRun == Spread(run, [executions |-> ResetFailed(run.executions),
                                       status |-> "Not Started",
                                       currentExecutionIndex |-> 0])
            s == IF failedExecutions = <<>> THEN Store(budget)
                 ELSE SaveTestRun(Store(budget), updatedRun)
        IN  /\ ~isExecutorOpen
            /\ Field(run, "status", "") = "Completed"
            /\ Len(auditLogs) < MaxAudit
            /\ Commit(s)
            /\ Faults(budget, s)
            /\ LoadData(s)
            /\ toast' = IF failedExecutions = <<>> THEN "No Failed Tests"
                        ELSE IF s.thrown THEN toast ELSE "Rerun Initiated"
            /\ lastOp' = [op |-> "rerunFailed", thrown |-> s.thrown, id |-> run.id]
            /\ UNCHANGED <<now, selectedRun, isExecutorOpen, currentIndex, isRunning,
                           executionStartTime, nUpdates, script>>

\* handleStartExecution: Start is offered for Not Started, Continue for In
\* Progress and Paused.  The executor mounts with its state initialised from
\* the run it is given.
OpenExecutor ==
    \E r \in 1..Len(listRuns) :
        LET run == listRuns[r]
        IN  /\ ~isExecutorOpen
            /\ Field(run, "status", "") \in {"Not Started", "In Progress", "Paused"}
            /\ selectedRun' = run
            /\ isExecutorOpen' = TRUE
            /\ currentIndex' = Field(run, "currentExecutionIndex", 0)
            /\ isRunning' = (run.status = "In Progress")
            /\ executionStartTime' = NONE
            /\ script' = [phase |-> IF run.status = "Not Started"
                                    THEN "opened" ELSE "off", records |-> 0]
            /\ lastOp' = [op |-> "open"]
            /\ UNCHANGED <<storeVars, uuid, now, listRuns, toast, nUpdates, faults>>

\* The dialog is dismissed: the executor unmounts.
CloseExecutor ==
    /\ isExecutorOpen
    /\ isExecutorOpen' = FALSE
    /\ script' = [phase |-> "off", records |-> 0]
    /\ lastOp' = [op |-> "close"]
    /\ UNCHANGED <<storeVars, uuid, now, listRuns, selectedRun, currentIndex,
                   isRunning, executionStartTime, toast, nUpdates, faults>>

(***************************************************************************)
(* TestRunExecutor.  testRun is the prop selectedRun, fixed for the        *)
(* session; the component renders its buttons only when the test case of   *)
(* the execution under the cursor exists.                                  *)
(***************************************************************************)
testRun == selectedRun

HasCurrentTestCase ==
    /\ currentIndex >= 0 /\ currentIndex < Len(testRun.executions)
    /\ \E i \in 1..Len(testCases) :
          testCases[i].id = testRun.executions[currentIndex + 1].testCaseId

ExecutorShown == isExecutorOpen /\ HasCurrentTestCase

\* The stored run the executor works on.
StoredRun(id) == testRuns[FindIndex(testRuns, id)]
IsStored(id) == FindIndex(testRuns, id) > 0

OffScript == [phase |-> "off", records |-> 0]

\* startedAt is set on every start.
StartedRun(run, idx, t) ==
    Spread(run, [status |-> "In Progress", startedAt |-> t,
                 currentExecutionIndex |-> idx])

StartExecution(budget) ==
    LET s == SaveTestRun(Store(budget), StartedRun(testRun, currentIndex, now))
    IN  /\ ExecutorShown
        /\ ~isRunning /\ Field(testRun, "status", "") # "Completed"
        /\ Len(auditLogs) < MaxAudit
        /\ isRunning' = TRUE
        /\ executionStartTime' = now
        /\ Commit(s)
        /\ Faults(budget, s)
        /\ LoadData(s)
        /\ script' = IF script.phase = "opened" /\ ~s.thrown
                     THEN [phase |-> "started", records |-> 0] ELSE OffScript
        /\ lastOp' = [op |-> "start", thrown |-> s.thrown]
        /\ UNCHANGED <<now, selectedRun, isExecutorOpen, currentIndex, toast,
                       nUpdates>>

PausedRun_ResetsIndex(run, idx, t) ==
    Spread(run, [status |-> "Paused", pausedAt |-> t, currentExecutionIndex |-> 0])

PausedRun(run, idx, t) ==
    Spread(run, [status |-> "Paused", pausedAt |-> t, currentExecutionIndex |-> idx])

PauseExecution(budget) ==
    LET s == SaveTestRun(Store(budget), PausedRun(testRun, currentIndex, now))
    IN  /\ ExecutorShown
        /\ isRunning
        /\ Len(auditLogs) < MaxAudit
        /\ isRunning' = FALSE
        /\ Commit(s)
        /\ Faults(budget, s)
        /\ LoadData(s)
        /\ script' = OffScript
        /\ lastOp' = [op |-> "pause", thrown |-> s.thrown, cursor |-> currentIndex]
        /\ UNCHANGED <<now, selectedRun, isExecutorOpen, currentIndex,
                       executionStartTime, toast, nUpdates>>

CancelledRun(run, idx) ==
    Spread(run, [status |-> "Cancelled", currentExecutionIndex |-> idx])

\* onClose runs after the save: a save that throws leaves the dialog open.
StopExecution(budget) ==
    LET s == SaveTestRun(Store(budget), CancelledRun(testRun, currentIndex))
    IN  /\ ExecutorShown
        /\ Len(auditLogs) < MaxAudit
        /\ isRunning' = FALSE
        /\ Commit(s)
        /\ Faults(budget, s)
        /\ LoadData(s)
        /\ isExecutorOpen' = IF s.thrown THEN isExecutorOpen ELSE FALSE
        /\ script' = OffScript
        /\ lastOp' = [op |-> "stop", thrown |-> s.thrown]
        /\ UNCHANGED <<now, selectedRun, currentIndex, executionStartTime, toast,
                       nUpdates>>

\* What the tester enters before pressing Pass, Fail, Skip or Block.
Outcomes ==
    { [status |-> "Pass", actualResult |-> "", comments |-> ""],
      [status |-> "Fail", actualResult |-> "seen", comments |-> "note"],
      [status |-> "Skipped", actualResult |-> "", comments |-> ""],
      [status |-> "Blocked", actualResult |-> "", comments |-> "note"] }

IsLastCase_OffByOne(run, idx) == idx = Len(run.executions)

IsLastCase(run, idx) == idx = Len(run.executions) - 1

\* The run executeTestCase saves.
ExecutedRun(run, idx, updatedExecution, t) ==
    Spread(run,
           [executions |-> [run.executions EXCEPT ![idx + 1] =
                               Spread(run.executions[idx + 1], updatedExecution)],
            status |-> IF IsLastCase(run, idx) THEN "Completed" ELSE "In Progress",
            currentExecutionIndex |-> IF IsLastCase(run, idx) THEN idx ELSE idx + 1,
            completedAt |-> IF IsLastCase(run, idx) THEN t ELSE UNDEFINED])

\* The two saves of executeTestCase, in order.
ExecuteSaves(s, run, idx, outcome) ==
    LET currentExecution == run.executions[idx + 1]
        updatedExecution == Spread(currentExecution,
                                   Spread(outcome, [executedAt |-> s.now]))
        s1 == SaveTestExecution(s, updatedExecution)
    IN  SaveTestRun(s1, ExecutedRun(run, idx, updatedExecution, s.now))

\* if (!currentExecution || !executionStartTime) return;
ExecuteGuard == executionStartTime # NONE

ExecuteTestCase(budget) ==
    \E outcome \in Outcomes :
        LET s == IF ExecuteGuard
                 THEN ExecuteSaves(Store(budget), testRun, currentIndex, outcome)
                 ELSE Store(budget)
            done == ExecuteGuard /\ ~s.thrown
            last == IsLastCase(testRun, currentIndex)
        IN  /\ ExecutorShown
            /\ isRunning
            /\ Len(auditLogs) + 1 < MaxAudit
            /\ Commit(s)
            /\ Faults(budget, s)
            /\ listRuns' = IF done THEN s.testRuns ELSE listRuns
            /\ currentIndex' = IF done /\ ~last THEN currentIndex + 1 ELSE currentIndex
            /\ executionStartTime' = IF done /\ ~last THEN now ELSE executionStartTime
            /\ isRunning' = IF done /\ last THEN FALSE ELSE isRunning
            /\ toast' = IF ~done THEN toast
                        ELSE IF last THEN "Test Run Completed" ELSE "Test Case Executed"
            /\ script' = IF done /\ script.phase = "started"
                         THEN [script EXCEPT !.records = @ + 1] ELSE OffScript
            /\ lastOp' = [op |-> "recordExecution", thrown |-> s.thrown,
                          entered |-> ExecuteGuard, status |-> outcome.status,
                          cursor |-> currentIndex]
            /\ UNCHANGED <<now, selectedRun, isExecutorOpen, nUpdates>>

\* if (index >= 0 && index < testRun.executions.length) setCurrentIndex(index)
NavigateToTestCase_Unchecked(index) ==
    /\ currentIndex' = index
    /\ script' = OffScript
    /\ lastOp' = [op |-> "navigate", index |-> index]
    /\ UNCHANGED <<storeVars, uuid, now, listRuns, selectedRun, isExecutorOpen,
                   isRunning, executionStartTime, toast, nUpdates, faults>>

NavigateToTestCase(index) ==
    /\ currentIndex' = IF index >= 0 /\ index < Len(testRun.executions)
                       THEN index ELSE currentIndex
    /\ script' = OffScript
    /\ lastOp' = [op |-> "navigate", index |-> index]
    /\ UNCHANGED <<storeVars, uuid, now, listRuns, selectedRun, isExecutorOpen,
                   isRunning, executionStartTime, toast, nUpdates, faults>>

\* Previous is disabled at the first execution, Next at the last.
Navigate ==
    /\ ExecutorShown
    /\ \/ currentIndex # 0 /\ NavigateToTestCase(currentIndex - 1)
       \/ currentIndex # Len(testRun.executions) - 1
            /\ NavigateToTestCase(currentIndex + 1)

(***************************************************************************)
(* The run specifications start from the storage a restore has filled:     *)
(* importData applied to an empty localStorage, then the page reload.      *)
(***************************************************************************)
SnapshotCase(id) ==
    [id |-> id, title |-> "imported", priority |-> "Medium", status |-> "Active",
     createdAt |-> 1, updatedAt |-> 1, version |-> 1]

\* A run of n executions, as the run form shapes it, not started.
FreshSnapshot(n) ==
    [testCases |-> [i \in 1..n |-> SnapshotCase(900 + i)],
     testRuns |-> << [id |-> 951, status |-> "Not Started",
                      currentExecutionIndex |-> 0, createdAt |-> 1, updatedAt |-> 1,
                      executions |-> [i \in 1..n |-> FormExecution(900 + i)]] >>,
     executions |-> <<>>]

SnapshotExecution(id, testCaseId, status) ==
    [id |-> id, testCaseId |-> testCaseId, status |-> status,
     comments |-> "note", actualResult |-> "seen", executedAt |-> 1,
     runId |-> 952]

\* A completed run with two failed executions, and one with none.
DoneSnapshot(outcomes) ==
    LET execs == [i \in 1..Len(outcomes) |->
                    SnapshotExecution(960 + i, 900 + i, outcomes[i])]
    IN  [testCases |-> [i \in 1..Len(outcomes) |-> SnapshotCase(900 + i)],
         testRuns |-> << [id |-> 952, status |-> "Completed",
                          currentExecutionIndex |-> Len(outcomes) - 1,
                          createdAt |-> 1, updatedAt |-> 1, startedAt |-> 1,
                          completedAt |-> 1, executions |-> execs] >>,
         executions |-> execs]

RunSnapshots ==
    {FreshSnapshot(1), FreshSnapshot(2)}
        \cup {DoneSnapshot(<<"Fail", "Pass", "Fail">>), DoneSnapshot(<<"Pass", "Blocked">>)}

EmptyStore ==
    [testCases |-> <<>>, testSuites |-> <<>>, testRuns |-> <<>>,
     executions |-> <<>>, history |-> <<>>,
     auditLogs |-> <<>>, uuid |-> 0, now |-> 1, budget |-> UNDEFINED,
     thrown |-> FALSE, ret |-> NONE]

InitRuns ==
    \E data \in RunSnapshots :
        LET s == ImportData(EmptyStore, data)
        IN  /\ testCases = s.testCases /\ testSuites = s.testSuites
            /\ testRuns = s.testRuns
            /\ executions = s.executions /\ history = s.history
            /\ auditLogs = s.auditLogs /\ uuid = s.uuid /\ now = 1
            /\ listRuns = s.testRuns /\ selectedRun = NoRun
            /\ isExecutorOpen = FALSE /\ currentIndex = 0 /\ isRunning = FALSE
            /\ executionStartTime = NONE /\ toast = ""
            /\ lastOp = [op |-> "init"]
            /\ nUpdates = <<>>
            /\ script = OffScript
            /\ faults = 0

\* The execution engine; localStorage accepts every write.
NextRuns ==
    \/ Tick
    \/ HandleRerunFailed(UNDEFINED)
    \/ OpenExecutor
    \/ CloseExecutor
    \/ StartExecution(UNDEFINED)
    \/ PauseExecution(UNDEFINED)
    \/ StopExecution(UNDEFINED)
    \/ ExecuteTestCase(UNDEFINED)
    \/ Navigate

Spec == InitRuns /\ [][NextRuns]_vars

\* navigateToTestCase asked for any index, the two just outside the list
\* included.
NavigateAny ==
    /\ ExecutorShown
    /\ \E index \in -1..Len(testRun.executions) : NavigateToTestCase(index)

NextNavigate == NextRuns \/ NavigateAny

SpecNavigate == InitRuns /\ [][NextNavigate]_vars

\* The engine together with the run form.
NextPage == NextRuns \/ HandleFormSubmit(UNDEFINED)

SpecPage == InitRuns /\ [][NextPage]_vars

(***************************************************************************)
(* The engine on a localStorage that may reject a write (its quota is      *)
(* exceeded): the handler's budget-th next setToStorage call throws.       *)
(***************************************************************************)
Budgets == {UNDEFINED, 0, 1, 2, 3}

MaxFaultyAudit == 4 \* audit entries at which the faulty specification stops

FaultyRoom == Len(auditLogs) < MaxFaultyAudit

NextFaulty ==
    \/ FaultyRoom /\ Tick
    \/ FaultyRoom /\ OpenExecutor
    \/ FaultyRoom /\ CloseExecutor
    \/ FaultyRoom /\ Navigate
    \/ \E budget \in Budgets : FaultyRoom /\ HandleRerunFailed(budget)
    \/ \E budget \in Budgets : FaultyRoom /\ StartExecution(budget)
    \/ \E budget \in Budgets : FaultyRoom /\ PauseExecution(budget)
    \/ \E budget \in Budgets : FaultyRoom /\ StopExecution(budget)
    \/ \E budget \in Budgets : FaultyRoom /\ ExecuteTestCase(budget)

SpecFaulty == InitRuns /\ [][NextFaulty]_vars

(***************************************************************************)
(* The repository under backup, restore and reset (SettingsPanel): the     *)
(* audit log of a restored backup may be as long as the backup's author    *)
(* made it.  The page reloads after a restore and after a reset.           *)
(***************************************************************************)
MaxIds == 7         \* identifiers handed out in the audit specification

IdsLeft == uuid < MaxIds

\* The audit log of a backup: n entries written before the backup was taken.
BackupLogs(n) ==
    [i \in 1..n |-> [id |-> 2000 + i, action |-> "old", entityType |-> "TestCase",
                     entityId |-> NONE, timestamp |-> 0]]

\* Lengths of the audit log a backup carries: below, at and above the cap.
BackupLengths == {0, AUDIT_CAP - 1, AUDIT_CAP, AUDIT_CAP + 200}

\* handleImport: importData, then window.location.reload().
HandleImport ==
    \E data \in {[auditLogs |-> BackupLogs(n)] : n \in BackupLengths}
                    \cup {[history |-> <<>>]} :
        LET s == ImportData(Store(UNDEFINED), data)
        IN  /\ Commit(s)
            /\ Faults(UNDEFINED, s)
            /\ LoadData(s)
            /\ lastOp' = [op |-> "importData",
                          logs |-> IF "auditLogs" \in DOMAIN data
                                   THEN Len(data.auditLogs) ELSE UNDEFINED]
            /\ UNCHANGED <<now, selectedRun, isExecutorOpen, currentIndex, isRunning,
                           executionStartTime, toast, nUpdates, script>>

\* handleClearData: clearAllData, then window.location.reload().
HandleClearData ==
    LET s == ClearAllData(Store(UNDEFINED))
    IN  /\ Commit(s)
        /\ Faults(UNDEFINED, s)
        /\ LoadData(s)
        /\ lastOp' = [op |-> "clearAllData"]
        /\ nUpdates' = <<>>
        /\ UNCHANGED <<now, selectedRun, isExecutorOpen, currentIndex, isRunning,
                       executionStartTime, toast, script>>

NextAudit ==
    \/ IdsLeft /\ HandleImport
    \/ IdsLeft /\ HandleClearData
    \/ IdsLeft /\ CreateTestCase
    \/ IdsLeft /\ UpdateTestCase
    \/ IdsLeft /\ RemoveTestCase

SpecAudit == Init /\ [][NextAudit]_vars

(***************************************************************************)
(* The repository under its callers: the test-case pages, the suite page   *)
(* (TestSuitesList, TestSuiteForm) and direct saves of runs and            *)
(* executions.                                                             *)
(***************************************************************************)
MaxRepoIds == 8     \* identifiers handed out in the repository specification
MaxSuites  == 2     \* suites in storage

RepoRoom == uuid < MaxRepoIds

CallSaveTestSuite(suite, budget) ==
    LET matched == "id" \in DOMAIN suite /\ FindIndex(testSuites, suite.id) > 0
        s       == SaveTestSuite(Store(budget), suite)
    IN  /\ matched \/ Len(testSuites) < MaxSuites
        /\ Commit(s)
        /\ Faults(budget, s)
        /\ lastOp' = [op |-> "saveTestSuite", budget |-> budget,
                      thrown |-> s.thrown,
                      matched |-> matched, id |-> Field(suite, "id", NONE),
                      ret |-> s.ret]
        /\ UNCHANGED <<now, uiVars, nUpdates, script>>

CallDeleteTestSuite(id, budget) ==
    LET s == DeleteTestSuite(Store(budget), id)
    IN  /\ Commit(s)
        /\ Faults(budget, s)
        /\ lastOp' = [op |-> "deleteTestSuite", budget |-> budget,
                      thrown |-> s.thrown,
                      matched |-> FindIndex(testSuites, id) > 0, id |-> id,
                      ret |-> s.ret]
        /\ UNCHANGED <<now, uiVars, nUpdates, script>>

CallSaveTestRun(run, budget) ==
    LET matched == "id" \in DOMAIN run /\ FindIndex(testRuns, run.id) > 0
        s       == SaveTestRun(Store(budget), run)
    IN  /\ matched \/ Len(testRuns) < MaxRuns
        /\ Commit(s)
        /\ Faults(budget, s)
        /\ LoadData(s)
        /\ lastOp' = [op |-> "saveTestRun", budget |-> budget,
                      thrown |-> s.thrown,
                      matched |-> matched, id |-> Field(run, "id", NONE),
                      ret |-> s.ret]
        /\ UNCHANGED <<now, selectedRun, isExecutorOpen, currentIndex, isRunning,
                       executionStartTime, toast, nUpdates, script>>

CallSaveTestExecution(execution, budget) ==
    LET matched == /\ "id" \in DOMAIN execution
                   /\ FindIndex(executions, execution.id) > 0
        s       == SaveTestExecution(Store(budget), execution)
    IN  /\ Commit(s)
        /\ Faults(budget, s)
        /\ lastOp' = [op |-> "saveTestExecution", budget |-> budget,
                      thrown |-> s.thrown,
                      matched |-> matched, id |-> Field(execution, "id", NONE),
                      ret |-> s.ret]
        /\ UNCHANGED <<now, uiVars, nUpdates, script>>

\* With an id when one is given: { ...data, id }.
WithId(partial, id) == IF id = NONE THEN partial ELSE Spread(partial, [id |-> id])

\* The test-case form: a case may be filed under a stored suite.
RepoCaseBodies ==
    {[title |-> "Login"], [status |-> "Active", version |-> 7]}
        \cup {[title |-> "Login", suiteId |-> sid] : sid \in StoredIds(testSuites)}

RepoSaveTestCase ==
    \E body \in RepoCaseBodies,
       id \in {NONE, UnmatchedId} \cup StoredIds(testCases) :
        CallSaveTestCase(body, id, UNDEFINED)

\* TestSuiteForm: availableParents = testSuites.filter(s => s.id !== suite?.id);
\* the select also keeps the parent the suite already has.
AvailableParents(selectedId) == StoredIds(testSuites) \ {selectedId}

\* handleSubmit: parentId: data.parentId === 'none' ? undefined : data.parentId
SuiteFormData(name, choice) ==
    [name |-> name, parentId |-> IF choice = NONE THEN UNDEFINED ELSE choice]

\* TestSuitesList.handleFormSubmit: { ...data, id: selectedSuite.id } when a
\* suite is being edited, data alone otherwise.
SuiteFormSubmit ==
    \E selectedId \in {NONE} \cup StoredIds(testSuites) :
        LET kept == IF selectedId = NONE THEN {}
                    ELSE {Field(testSuites[FindIndex(testSuites, selectedId)],
                                "parentId", NONE)}
        IN  \E choice \in {NONE} \cup AvailableParents(selectedId) \cup kept :
                CallSaveTestSuite(WithId(SuiteFormData("suite", choice), selectedId),
                                  UNDEFINED)

\* saveTestSuite called with an id no stored suite carries.
SaveSuiteUnmatched ==
    CallSaveTestSuite([name |-> "restored", id |-> UnmatchedId], UNDEFINED)

\* TestSuitesList.handleDelete, and deleteTestSuite with an id not stored.
RemoveTestSuite ==
    \E id \in StoredIds(testSuites) \cup {UnmatchedId} :
        CallDeleteTestSuite(id, UNDEFINED)

RunPartials == {[executions |-> <<>>, status |-> "Not Started"], [status |-> "Paused"]}

RepoSaveTestRun ==
    \E run \in RunPartials, id \in {NONE, UnmatchedId} \cup StoredIds(testRuns) :
        CallSaveTestRun(WithId(run, id), UNDEFINED)

ExecutionPartials ==
    {[testCaseId |-> 901, status |-> "Pass"], [comments |-> "note"]}

RepoSaveTestExecution ==
    \E execution \in ExecutionPartials,
       id \in {NONE, UnmatchedId} \cup StoredIds(executions) :
        CallSaveTestExecution(WithId(execution, id), UNDEFINED)

NextRepo ==
    \/ RepoRoom /\ RepoSaveTestCase
    \/ RepoRoom /\ RemoveTestCase
    \/ RepoRoom /\ SuiteFormSubmit
    \/ RepoRoom /\ SaveSuiteUnmatched
    \/ RepoRoom /\ RemoveTestSuite
    \/ RepoRoom /\ RepoSaveTestRun
    \/ RepoRoom /\ RepoSaveTestExecution

SpecRepo == Init /\ [][NextRepo]_vars

(***************************************************************************)
(* searchTestCases.  Here the texts the search reads (title, description,  *)
(* tags, id, the query) are sequences of UTF-16 code units, so that        *)
(* toLowerCase, includes and the < of strings are computed as JavaScript   *)
(* computes them.  status and priority stay names; CodeUnits spells them.  *)
(***************************************************************************)
\* String.prototype.toLowerCase on A..Z.
ToLowerCase(str) ==
    [i \in 1..Len(str) |-> IF str[i] \in 65..90 THEN str[i] + 32 ELSE str[i]]

\* String.prototype.includes
Includes(str, sub) ==
    \E i \in 0..(Len(str) - Len(sub)) : SubSeq(str, i + 1, i + Len(sub)) = sub

\* Array.prototype.includes
ArrayIncludes(arr, x) == \E i \in 1..Len(arr) : arr[i] = x

CodeUnits(name) ==
    CASE name = "Draft" -> <<68, 114, 97, 102, 116>>
      [] name = "Active" -> <<65, 99, 116, 105, 118, 101>>
      [] name = "Archived" -> <<65, 114, 99, 104, 105, 118, 101, 100>>
      [] name = "Low" -> <<76, 111, 119>>
      [] name = "Medium" -> <<77, 101, 100, 105, 117, 109>>
      [] name = "High" -> <<72, 105, 103, 104>>

\* a < b on strings: the first differing code unit decides, a proper prefix is less.
LexLess(a, b) ==
    \E i \in 1..(Min(Len(a), Len(b)) + 1) :
        /\ SubSeq(a, 1, i - 1) = SubSeq(b, 1, i - 1)
        /\ \/ i > Len(a) /\ i <= Len(b)
           \/ i <= Len(a) /\ i <= Len(b) /\ a[i] < b[i]

\* tc.title.toLowerCase().includes(query) || ... description ... tags ... id
MatchQuery_CaseSensitive(tc, searchQuery) ==
    \/ Includes(tc.title, searchQuery)
    \/ Includes(tc.description, searchQuery)
    \/ \E i \in 1..Len(tc.tags) : Includes(tc.tags[i], searchQuery)
    \/ Includes(tc.id, searchQuery)

MatchQuery(tc, searchQuery) ==
    LET query == ToLowerCase(searchQuery)
    IN  \/ Includes(ToLowerCase(tc.title), query)
        \/ Includes(ToLowerCase(tc.description), query)
        \/ \E i \in 1..Len(tc.tags) : Includes(ToLowerCase(tc.tags[i]), query)
        \/ Includes(ToLowerCase(tc.id), query)

\* A filter is applied when its value is truthy: a non-empty string or array.
IsSet(filters, key) ==
    /\ key \in DOMAIN filters
    /\ IF key = "suiteId" THEN filters[key] # NONE ELSE filters[key] # <<>>

\* The five filters, one after the other.
ApplyFilters(coll, filters) ==
    LET ByQuery(tc)    == MatchQuery(tc, filters.searchQuery)
        ByStatus(tc)   == ArrayIncludes(filters.status, tc.status)
        ByPriority(tc) == ArrayIncludes(filters.priority, tc.priority)
        ByTags(tc)     == \E i \in 1..Len(filters.tags) :
                              ArrayIncludes(tc.tags, filters.tags[i])
        BySuite(tc)    == Field(tc, "suiteId", UNDEFINED) = filters.suiteId
        c1 == IF IsSet(filters, "searchQuery") THEN SelectSeq(coll, ByQuery) ELSE coll
        c2 == IF IsSet(filters, "status") THEN SelectSeq(c1, ByStatus) ELSE c1
        c3 == IF IsSet(filters, "priority") THEN SelectSeq(c2, ByPriority) ELSE c2
        c4 == IF IsSet(filters, "tags") THEN SelectSeq(c3, ByTags) ELSE c3
    IN  IF IsSet(filters, "suiteId") THEN SelectSeq(c4, BySuite) ELSE c4

\* a[sort.field], lowercased when a string.  Timestamps are ISO strings of one
\* fixed layout, which order as the instants: one unit holding the reading.
SortValue(tc, field) ==
    CASE field = "title" -> ToLowerCase(tc.title)
      [] field \in {"status", "priority"} -> ToLowerCase(CodeUnits(tc[field]))
      [] field \in {"createdAt", "updatedAt"} -> <<tc[field]>>

\* The compare function handed to Array.prototype.sort.
Comparator_CaseSensitive(a, b, sort) ==
    LET aValue == IF sort.field = "title" THEN a.title ELSE SortValue(a, sort.field)
        bValue == IF sort.field = "title" THEN b.title ELSE SortValue(b, sort.field)
    IN  IF LexLess(aValue, bValue) THEN (IF sort.direction = "asc" THEN -1 ELSE 1)
        ELSE IF LexLess(bValue, aValue) THEN (IF sort.direction = "asc" THEN 1 ELSE -1)
        ELSE 0

Comparator(a, b, sort) ==
    LET aValue == SortValue(a, sort.field)
        bValue == SortValue(b, sort.field)
    IN  IF LexLess(aValue, bValue) THEN (IF sort.direction = "asc" THEN -1 ELSE 1)
        ELSE IF LexLess(bValue, aValue) THEN (IF sort.direction = "asc" THEN 1 ELSE -1)
        ELSE 0

\* Array.prototype.sort is stable: equal elements keep their order.
RECURSIVE SortBy(_, _)
SortBy(coll, sort) ==
    IF coll = <<>> THEN <<>>
    ELSE LET sorted == SortBy(SubSeq(coll, 1, Len(coll) - 1), sort)
             x      == coll[Len(coll)]
             k      == Cardinality({i \in 1..Len(sorted) :
                                       Comparator(sorted[i], x, sort) <= 0})
         IN  SubSeq(sorted, 1, k) \o <<x>> \o SubSeq(sorted, k + 1, Len(sorted))

\* Math.ceil(total / limit)
Ceil_Floor(total, limit) == total \div limit

Ceil(total, limit) == (total + limit - 1) \div limit

\* Array.prototype.slice(start, end)
Slice(arr, start, end) == SubSeq(arr, start + 1, Min(end, Len(arr)))

SearchTestCases(coll, filters, sort, pagination) ==
    LET sorted     == SortBy(ApplyFilters(coll, filters), sort)
        total      == Len(sorted)
        startIndex == (pagination.page - 1) * pagination.limit
    IN  [testCases  |-> Slice(sorted, startIndex, startIndex + pagination.limit),
         total      |-> total,
         totalPages |-> Ceil(total, pagination.limit)]

\* getTestCases parses a fresh array out of localStorage: filtering and
\* sorting that array leaves the stored collection as it is.
StoredAfterSearch_SharedArray(stored, working) == working

StoredAfterSearch(stored, working) == stored

(***************************************************************************)
(* The test-case list under searchTestCases: the collection is one that    *)
(* saveTestCase has stored, the calls are those a page can make.           *)
(***************************************************************************)
MaxStored == 3      \* test cases in the searched collection
MaxPage   == 3      \* pages asked for
MaxLimit  == 2      \* page sizes asked for

\* Stored test cases "a1" Ab, "b2" ab, "c3" C and "d4" with an empty title.
SearchPool ==
    << [id |-> <<97, 49>>, title |-> <<65, 98>>, description |-> <<>>,
        tags |-> << <<117, 105>> >>, status |-> "Active", priority |-> "High",
        suiteId |-> 5, createdAt |-> 1, updatedAt |-> 3, version |-> 2],
       [id |-> <<98, 50>>, title |-> <<97, 98>>, description |-> <<120, 66>>,
        tags |-> <<>>, status |-> "Draft", priority |-> "Low",
        createdAt |-> 2, updatedAt |-> 2, version |-> 1],
       [id |-> <<99, 51>>, title |-> <<67>>, description |-> <<>>,
        tags |-> << <<66>>, <<97, 112, 105>> >>, status |-> "Active",
        priority |-> "Medium", suiteId |-> 6, createdAt |-> 2, updatedAt |-> 1,
        version |-> 1],
       [id |-> <<100, 52>>, title |-> <<>>, description |-> <<120>>,
        tags |-> << <<117, 105>> >>, status |-> "Archived", priority |-> "High",
        suiteId |-> 5, createdAt |-> 3, updatedAt |-> 3, version |-> 1] >>

\* The pool from its k-th element on, cut to n elements.
PoolFrom(k, n) ==
    [i \in 1..Min(n, Len(SearchPool)) |-> SearchPool[((k + i - 2) % Len(SearchPool)) + 1]]

SearchCollections ==
    {PoolFrom(k, n) : k \in 1..Len(SearchPool), n \in 0..MaxStored}

\* Every filter dimension absent or supplied: the queries "B" and "A1", an
\* empty status list, and the tags "ui" and "zz".
Optional(key, values) == {<<>>} \cup {[k \in {key} |-> v] : v \in values}

AllFilters ==
    {Spread(Spread(Spread(Spread(q, st), pr), tg), su) :
        q  \in Optional("searchQuery", {<<66>>, <<65, 49>>}),
        st \in Optional("status", {<<>>, <<"Active", "Draft">>}),
        pr \in Optional("priority", {<<"High">>}),
        tg \in Optional("tags", {<< <<117, 105>>, <<122, 122>> >>}),
        su \in Optional("suiteId", {5})}

NoFilters == <<>>

Sorts ==
    {[field |-> f, direction |-> d] :
        f \in {"title", "priority", "status", "createdAt", "updatedAt"},
        d \in {"asc", "desc"}}

\* The list's own call: newest first, one page size.
ListSort == [field |-> "updatedAt", direction |-> "desc"]

SearchCalls ==
    {[filters |-> f, sort |-> ListSort, pagination |-> [page |-> 1, limit |-> MaxLimit]] :
        f \in AllFilters}
    \cup {[filters |-> f, sort |-> s, pagination |-> [page |-> p, limit |-> l]] :
            f \in {NoFilters, [status |-> <<"Active", "Draft">>]},
            s \in Sorts, p \in 1..MaxPage, l \in 1..MaxLimit}

\* loadTestCases: one call of searchTestCases.
Search ==
    \E call \in SearchCalls :
        LET result  == SearchTestCases(testCases, call.filters, call.sort,
                                       call.pagination)
            working == SortBy(ApplyFilters(testCases, call.filters), call.sort)
        IN  /\ testCases' = StoredAfterSearch(testCases, working)
            /\ lastOp' = [op |-> "searchTestCases", call |-> call, result |-> result,
                          repeated |-> /\ lastOp.op = "searchTestCases"
                                       /\ lastOp.call = call]
            /\ UNCHANGED <<testSuites, testRuns, executions, history, auditLogs,
                           uuid, now, uiVars, nUpdates, script, faults>>

InitSearch ==
    /\ testCases \in SearchCollections
    /\ testSuites = <<>> /\ testRuns = <<>> /\ executions = <<>>
    /\ history = <<>> /\ auditLogs = <<>>
    /\ uuid = 0 /\ now = 1
    /\ listRuns = <<>> /\ selectedRun = NoRun /\ isExecutorOpen = FALSE
    /\ currentIndex = 0 /\ isRunning = FALSE /\ executionStartTime = NONE
    /\ toast = ""
    /\ lastOp = [op |-> "init"]
    /\ nUpdates = <<>>
    /\ script = OffScript
    /\ faults = 0

NextSearch == Search

SpecSearch == InitSearch /\ [][NextSearch]_vars

(***************************************************************************)
(* The run list with its details dialog (TestRunDetail) and the dashboard  *)
(* figures of getMetrics.                                                  *)
(***************************************************************************)
MaxDetailAudit == 4  \* audit entries at which the details specification stops

\* The items of the status select; "" stands for a select left untouched.
DetailStatuses == {"Pass", "Fail", "Skipped", "Blocked", "Not Executed"}

\* Array.prototype.find / findIndex by id: the first element carrying it.
FirstWithId(execs, id) ==
    CHOOSE i \in 1..Len(execs) :
        /\ execs[i].id = id
        /\ \A j \in 1..(i - 1) : execs[j].id # id

\* onValueChange writes the card's execution, with the chosen status, over
\* the first execution of the run that carries the card's id.
EditedExecutions(execs, k, value) ==
    IF value = "" THEN execs
    ELSE [execs EXCEPT ![FirstWithId(execs, execs[k].id)] =
             Spread(execs[k], [status |-> value])]

\* View Details on a listed run, the status select and comments of one of
\* its execution cards, and Save: handleUpdateExecution.  The dialog is
\* modal, so no other handler runs in between.
HandleUpdateExecution(budget) ==
    \E r \in 1..Len(listRuns) :
        \E k \in 1..Len(listRuns[r].executions), value \in DetailStatuses \cup {""},
           comments \in {"", "note"} :
            LET run       == listRuns[r]
                edited    == EditedExecutions(run.executions, k, value)
                execution == edited[FirstWithId(edited, run.executions[k].id)]
                updatedExecution ==
                    Spread(execution, [status |-> execution.status,
                                       comments |-> comments,
                                       executedAt |-> now])
                s == SaveTestExecution(Store(budget), updatedExecution)
            IN  /\ ~isExecutorOpen
                /\ Len(auditLogs) < MaxDetailAudit
                /\ Commit(s)
                /\ Faults(budget, s)
                /\ LoadData(s)
                /\ selectedRun' = Spread(run, [executions |-> edited])
                /\ toast' = IF s.thrown THEN "Error" ELSE "Success"
                /\ lastOp' = [op |-> "updateExecution", thrown |-> s.thrown,
                              status |-> execution.status, ret |-> s.ret]
                /\ UNCHANGED <<now, isExecutorOpen, currentIndex, isRunning,
                               executionStartTime, nUpdates, script>>

\* executionCounts[status] || 0
CountOf(execs, status) ==
    Cardinality({i \in 1..Len(execs) : execs[i].status = status})

\* count / totalExecutions * 100 as the fraction <<numerator, denominator>>.
Rate(count, totalExecutions) ==
    IF totalExecutions > 0 THEN <<count * 100, totalExecutions>> ELSE <<0, 1>>

\* The executionMetrics of getMetrics.
GetMetrics(execs) ==
    LET totalExecutions == Len(execs)
    IN  [totalExecutions |-> totalExecutions,
         passRate  |-> Rate(CountOf(execs, "Pass"), totalExecutions),
         failRate  |-> Rate(CountOf(execs, "Fail"), totalExecutions),
         skipRate  |-> Rate(CountOf(execs, "Skipped"), totalExecutions),
         blockRate |-> Rate(CountOf(execs, "Blocked"), totalExecutions)]

DetailRoom == Len(auditLogs) < MaxDetailAudit

NextDetail ==
    \/ Tick
    \/ DetailRoom /\ HandleFormSubmit(UNDEFINED)
    \/ DetailRoom /\ HandleRerunFailed(UNDEFINED)
    \/ DetailRoom /\ HandleUpdateExecution(UNDEFINED)

SpecDetail == InitRuns /\ [][NextDetail]_vars

(***************************************************************************)
(* Backup and restore through files (SettingsPanel, exportData and         *)
(* importData).  A file's text is its kind and, for an object, the members *)
(* JSON.parse gives back.                                                  *)
(***************************************************************************)
MaxBackupIds == 4   \* identifiers handed out in the backup specification

Collections ==
    {"testCases", "testSuites", "testRuns", "executions", "history", "auditLogs"}

\* JSON.stringify of an array of objects: undefined properties are left out,
\* those of the executions nested in a run as well.
StringifyArray(arr) ==
    [i \in 1..Len(arr) |->
        LET o == Jsonify(arr[i])
        IN  IF "executions" \in DOMAIN o
            THEN Spread(o, [executions |->
                               [j \in 1..Len(o.executions) |-> Jsonify(o.executions[j])]])
            ELSE o]

\* JSON.stringify(data, null, 2) of the backup object.
Stringify(data) ==
    [kind |-> "object",
     data |-> [k \in DOMAIN data |->
                  IF k \in Collections THEN StringifyArray(data[k]) ELSE data[k]]]

\* exportData: every collection as getFromStorage reads it, and two stamps.
ExportData(s) ==
    Stringify([testCases |-> s.testCases, testSuites |-> s.testSuites,
               testRuns |-> s.testRuns, executions |-> s.executions,
               history |-> s.history, auditLogs |-> s.auditLogs,
               exportedAt |-> s.now, version |-> "1.0"])

\* importData: JSON.parse throws on text that is no JSON, reading a property
\* of null throws, and both are caught; a number, a string, true or an array
\* has none of the keys.
ImportJson(s, jsonData) ==
    IF jsonData.kind \in {"garbage", "null"} THEN [s EXCEPT !.ret = FALSE]
    ELSE ImportData(s, IF jsonData.kind = "object" THEN jsonData.data ELSE <<>>)

\* A backup made elsewhere: one test case with its history, one suite, one
\* run with one execution, and an audit log of n entries.
BackupSnapshot(n) ==
    [testCases  |-> << SnapshotCase(901) >>,
     testSuites |-> << [id |-> 921, name |-> "imported", createdAt |-> 1,
                        updatedAt |-> 1] >>,
     testRuns   |-> << [id |-> 951, status |-> "Not Started",
                        currentExecutionIndex |-> 0, createdAt |-> 1, updatedAt |-> 1,
                        executions |-> << FormExecution(901) >>] >>,
     executions |-> << SnapshotExecution(961, 901, "Pass") >>,
     history    |-> << [id |-> 971, testCaseId |-> 901, version |-> 1,
                        changes |-> SnapshotCase(901), changedAt |-> 1,
                        changeType |-> "Created"] >>,
     auditLogs  |-> BackupLogs(n)]

\* The keys a backup file may carry: none, all, all but one, a few.
BackupKeys ==
    {{}, Collections, Collections \ {"history"}, Collections \ {"auditLogs"},
     {"history"}, {"testCases", "auditLogs"}}

BackupFiles ==
    {[kind |-> "object", data |-> [k \in keys |-> BackupSnapshot(n)[k]]] :
        keys \in BackupKeys, n \in {1, AUDIT_CAP}}
    \cup {[kind |-> k] : k \in {"garbage", "null", "number"}}

\* handleImportData on the file read: importData, then a toast and, on
\* success, window.location.reload().
ImportFile(jsonData, roundTrip) ==
    LET s == ImportJson(Store(UNDEFINED), jsonData)
    IN  /\ Commit(s)
        /\ Faults(UNDEFINED, s)
        /\ listRuns' = IF s.ret THEN s.testRuns ELSE listRuns
        /\ toast' = IF s.ret THEN "Success" ELSE "Error"
        /\ lastOp' = [op |-> "importData", jsonData |-> jsonData, ret |-> s.ret,
                      roundTrip |-> roundTrip]
        /\ nUpdates' = IF s.ret
                       THEN [id \in StoredIds(s.testCases) |->
                                s.testCases[FindIndex(s.testCases, id)].version - 1]
                       ELSE nUpdates
        /\ UNCHANGED <<now, selectedRun, isExecutorOpen, currentIndex, isRunning,
                       executionStartTime, script>>

HandleImportData == \E jsonData \in BackupFiles : ImportFile(jsonData, FALSE)

\* handleExportData, and the downloaded file handed to handleImportData.
ExportThenImport == ImportFile(ExportData(Store(UNDEFINED)), TRUE)

BackupRoom == uuid < MaxBackupIds

NextBackup ==
    \/ BackupRoom /\ HandleImportData
    \/ BackupRoom /\ ExportThenImport
    \/ BackupRoom /\ CreateTestCase
    \/ BackupRoom /\ UpdateTestCase
    \/ BackupRoom /\ SuiteFormSubmit
    \/ BackupRoom /\ RepoSaveTestExecution

SpecBackup == Init /\ [][NextBackup]_vars

(***************************************************************************)
(* The repository on a localStorage that may reject a write: the           *)
(* operation's budget-th next setToStorage call throws.                    *)
(***************************************************************************)
MaxQuotaIds == 6    \* identifiers handed out in the quota specification

QuotaBudgets == {UNDEFINED, 0, 1, 2}

QuotaRoom == uuid < MaxQuotaIds

QuotaSaveTestCase ==
    \E body \in TestCaseBodies, id \in {NONE} \cup StoredIds(testCases),
       budget \in QuotaBudgets :
        CallSaveTestCase(body, id, budget)

QuotaDeleteTestCase ==
    \E id \in StoredIds(testCases) \cup {UnmatchedId}, budget \in QuotaBudgets :
        CallDeleteTestCase(id, budget)

QuotaSaveTestSuite ==
    \E id \in {NONE} \cup StoredIds(testSuites), budget \in QuotaBudgets :
        CallSaveTestSuite(WithId(SuiteFormData("suite", NONE), id), budget)

QuotaDeleteTestSuite ==
    \E id \in StoredIds(testSuites) \cup {UnmatchedId}, budget \in QuotaBudgets :
        CallDeleteTestSuite(id, budget)

QuotaSaveTestRun ==
    \E id \in {NONE} \cup StoredIds(testRuns), budget \in QuotaBudgets :
        CallSaveTestRun(WithId([status |-> "Paused"], id), budget)

QuotaSaveTestExecution ==
    \E id \in {NONE} \cup StoredIds(executions), budget \in QuotaBudgets :
        CallSaveTestExecution(WithId([comments |-> "note"], id), budget)

NextQuota ==
    \/ QuotaRoom /\ QuotaSaveTestCase
    \/ QuotaRoom /\ QuotaDeleteTestCase
    \/ QuotaRoom /\ QuotaSaveTestSuite
    \/ QuotaRoom /\ QuotaDeleteTestSuite
    \/ QuotaRoom /\ QuotaSaveTestRun
    \/ QuotaRoom /\ QuotaSaveTestExecution

SpecQuota == Init /\ [][NextQuota]_vars

(***************************************************************************)
(* C1: a test case created by saveTestCase and updated by N successful     *)
(* saveTestCase calls carrying its id has version 1+N, whatever the        *)
(* partial carries; an update keeps the id of every stored test case and   *)
(* never moves its updatedAt backwards.                                    *)
(***************************************************************************)
C1_Step ==
    /\ \A i \in 1..Len(testCases') :
          testCases'[i].version = 1 + nUpdates'[testCases'[i].id]
    /\ lastOp'.op = "saveTestCase" =>
          /\ Len(testCases') >= Len(testCases)
          /\ \A i \in 1..Len(testCases) :
                /\ testCases'[i].id = testCases[i].id
                /\ testCases'[i].updatedAt >= testCases[i].updatedAt
                /\ testCases'[i].createdAt = testCases[i].createdAt

C1_VersionCountsUpdates == [][C1_Step]_vars

\* A test case updated twice, the last time by a partial carrying version 7,
\* at a later clock reading than its creation.
C1_Witness ==
    /\ lastOp.op = "saveTestCase" /\ lastOp.matched /\ ~lastOp.thrown
    /\ \E i \in 1..Len(testCases) :
          /\ testCases[i].id = lastOp.id
          /\ nUpdates[lastOp.id] = 2
          /\ testCases[i].title = "logout"
          /\ testCases[i].updatedAt > testCases[i].createdAt

(***************************************************************************)
(* C2: on a run of N executions opened in status Not Started, start        *)
(* followed by i recordExecution calls leaves the stored run In Progress   *)
(* with currentExecutionIndex = i and no completedAt while i < N, and      *)
(* Completed with completedAt set once i = N; no further call is recorded. *)
(***************************************************************************)
C2_StartThenRecord ==
    script.phase = "started" =>
        LET N == Len(testRun.executions)
            i == script.records
            stored == StoredRun(testRun.id)
        IN  /\ i <= N
            /\ i < N => /\ stored.status = "In Progress"
                        /\ stored.currentExecutionIndex = i
                        /\ i >= 1 => "completedAt" \notin DOMAIN stored
            /\ i = N => /\ stored.status = "Completed"
                        /\ "completedAt" \in DOMAIN stored
                        /\ ~isRunning

\* A two-execution run after start and two recordExecution calls.
C2_Witness ==
    /\ script.phase = "started" /\ script.records = 2
    /\ Len(testRun.executions) = 2
    /\ lastOp.op = "recordExecution"
    /\ StoredRun(testRun.id).status = "Completed"

(***************************************************************************)
(* C3: recordExecution invoked while the stored run is not In Progress     *)
(* writes nothing: the stored runs, the executions collection and the      *)
(* audit log are unchanged.                                                *)
(***************************************************************************)
C3_Step ==
    (/\ lastOp'.op = "recordExecution"
     /\ IsStored(testRun.id)
     /\ Field(StoredRun(testRun.id), "status", "") # "In Progress")
        => /\ testRuns' = testRuns
           /\ executions' = executions
           /\ auditLogs' = auditLogs

C3_RecordOnlyInProgress == [][C3_Step]_vars

(***************************************************************************)
(* C4: once a stored run is Completed or Cancelled, no start, pause, stop  *)
(* or recordExecution changes its stored status.                           *)
(***************************************************************************)
ExecutorOps == {"start", "pause", "stop", "recordExecution"}

C4_Step ==
    lastOp'.op \in ExecutorOps =>
        \A i \in 1..Len(testRuns) :
            Field(testRuns[i], "status", "") \in {"Completed", "Cancelled"}
                => /\ i <= Len(testRuns')
                   /\ Field(testRuns'[i], "status", "") = testRuns[i].status

C4_TerminalStatuses == [][C4_Step]_vars

(***************************************************************************)
(* C5: every stored run has completedAt set if and only if its status is   *)
(* Completed.                                                              *)
(***************************************************************************)
C5_CompletedAtIffCompleted ==
    \A i \in 1..Len(testRuns) :
        (Field(testRuns[i], "completedAt", NONE) # NONE)
            <=> (Field(testRuns[i], "status", "") = "Completed")

(***************************************************************************)
(* C6: rerunFailed on a run with at least one Fail execution sets exactly  *)
(* the Fail executions to Not Executed with empty comments and             *)
(* actualResult, leaves every other execution as it was, and stores the    *)
(* run as Not Started with currentExecutionIndex 0; on a run with no Fail  *)
(* execution it writes nothing and shows the toast "No Failed Tests".      *)
(***************************************************************************)
C6_Step ==
    lastOp'.op = "rerunFailed" =>
        LET before == StoredRun(lastOp'.id)
            after  == testRuns'[FindIndex(testRuns', lastOp'.id)]
            failed == {i \in 1..Len(before.executions) :
                          before.executions[i].status = "Fail"}
        IN  IF failed = {}
            THEN /\ UNCHANGED <<storeVars, uuid>>
                 /\ toast' = "No Failed Tests"
            ELSE /\ after.status = "Not Started"
                 /\ after.currentExecutionIndex = 0
                 /\ Len(after.executions) = Len(before.executions)
                 /\ \A i \in 1..Len(before.executions) :
                       IF i \in failed
                       THEN /\ after.executions[i].status = "Not Executed"
                            /\ after.executions[i].comments = ""
                            /\ after.executions[i].actualResult = ""
                            /\ after.executions[i].id = before.executions[i].id
                            /\ after.executions[i].testCaseId
                                  = before.executions[i].testCaseId
                       ELSE after.executions[i] = before.executions[i]
                 /\ \A j \in 1..Len(testRuns) :
                       testRuns[j].id # lastOp'.id => testRuns'[j] = testRuns[j]
                 /\ toast' = "Rerun Initiated"

C6_RerunFailedResetsFailures == [][C6_Step]_vars

\* Rerun Failed on the completed run whose first and third executions failed.
C6_Witness ==
    /\ lastOp.op = "rerunFailed" /\ toast = "Rerun Initiated"
    /\ LET run == StoredRun(lastOp.id)
       IN  /\ Len(run.executions) = 3
           /\ run.status = "Not Started"
           /\ run.executions[1].status = "Not Executed"
           /\ run.executions[2].status = "Pass"
           /\ run.executions[2].comments = "note"
           /\ run.executions[3].status = "Not Executed"

(***************************************************************************)
(* C7 as the specification states it: pause leaves the stored              *)
(* currentExecutionIndex at the value it had before the pause, also after  *)
(* navigation.                                                             *)
(***************************************************************************)
C7_OriginalStep ==
    lastOp'.op = "pause" =>
        LET before == StoredRun(testRun.id)
            after  == testRuns'[FindIndex(testRuns', testRun.id)]
        IN  /\ before.status = "In Progress"
            /\ after.status = "Paused"
            /\ after.currentExecutionIndex = before.currentExecutionIndex

C7_Step ==
    lastOp'.op = "pause" =>
        LET before == StoredRun(testRun.id)
            after  == testRuns'[FindIndex(testRuns', testRun.id)]
        IN  /\ before.status = "In Progress"
            /\ after.status = "Paused"
            /\ after.pausedAt = now
            /\ after.currentExecutionIndex = currentIndex
            /\ (after.currentExecutionIndex = before.currentExecutionIndex)
                  <=> (currentIndex = before.currentExecutionIndex)

C8_Step ==
    (/\ lastOp'.op = "start"
     /\ IsStored(testRun.id)
     /\ Field(StoredRun(testRun.id), "status", "") = "Paused"
     /\ "startedAt" \in DOMAIN StoredRun(testRun.id))
        => LET before == StoredRun(testRun.id)
               after  == testRuns'[FindIndex(testRuns', testRun.id)]
           IN  /\ after.startedAt = before.startedAt
               /\ after.currentExecutionIndex = before.currentExecutionIndex

C8_StartKeepsStartedAt == [][C8_Step]_vars

(***************************************************************************)
(* C9: a recordExecution one of whose writes is rejected persists neither  *)
(* the execution outcome nor the change of the run.                        *)
(***************************************************************************)
C9_Step ==
    (lastOp'.op = "recordExecution" /\ lastOp'.thrown)
        => /\ executions' = executions
           /\ testRuns' = testRuns

C9_RecordAtomic == [][C9_Step]_vars

(***************************************************************************)
(* C10: the audit log never holds more than 1000 entries, and every        *)
(* operation that appends to it keeps the newest entries in their order,   *)
(* with the entry it appended last: what is dropped is a prefix of the     *)
(* log, its oldest entries.                                                *)
(***************************************************************************)
\* The log the handler that ran last appended its entry to.
AuditBase ==
    CASE lastOp'.op = "importData" /\ lastOp'.logs # UNDEFINED
            -> BackupLogs(lastOp'.logs)
      [] lastOp'.op = "clearAllData" -> <<>>
      [] OTHER -> auditLogs

AuditAppended ==
    \/ lastOp'.op \in {"saveTestCase", "importData", "clearAllData"}
    \/ lastOp'.op = "deleteTestCase" /\ lastOp'.matched

C10_Step ==
    LET base    == AuditBase
        m       == Len(auditLogs')
        dropped == Len(base) + 1 - m
    IN  /\ m <= AUDIT_CAP
        /\ IF AuditAppended
           THEN /\ dropped >= 0
                /\ dropped > 0 => m = AUDIT_CAP
                /\ SubSeq(auditLogs', 1, m - 1) = SubSeq(base, dropped + 1, Len(base))
                /\ auditLogs'[m].id \in (uuid + 1)..uuid'
                /\ auditLogs'[m].timestamp = now
           ELSE auditLogs' = auditLogs

SaveOps == {"saveTestCase", "saveTestSuite", "saveTestRun", "saveTestExecution"}

EntityOf(op) ==
    CASE op = "saveTestCase" -> [type |-> "TestCase", noun |-> "test case"]
      [] op = "saveTestSuite" -> [type |-> "TestSuite", noun |-> "test suite"]
      [] op = "saveTestRun" -> [type |-> "TestRun", noun |-> "test run"]
      [] op = "saveTestExecution" ->
            [type |-> "TestExecution", noun |-> "test execution"]

C11_Step ==
    (lastOp'.op \in SaveOps /\ ~lastOp'.thrown) =>
        LET ret   == lastOp'.ret
            n     == Len(auditLogs)
            h     == Len(history)
            entry == auditLogs'[n + 1]
        IN  /\ Len(auditLogs') = n + 1
            /\ SubSeq(auditLogs', 1, n) = auditLogs
            /\ entry.entityId = ret.id
            /\ entry.entityType = EntityOf(lastOp'.op).type
            /\ entry.action = (IF lastOp'.matched THEN "Updated " ELSE "Created ")
                                 \o EntityOf(lastOp'.op).noun
            /\ IF lastOp'.op = "saveTestCase"
               THEN /\ Len(history') = h + 1
                    /\ {history'[i] : i \in 1..h} = {history[i] : i \in 1..h}
                    /\ history'[h + 1].testCaseId = ret.id
                    /\ history'[h + 1].version = ret.version
                    /\ history'[h + 1].changes = ret
                    /\ history'[h + 1].changeType
                          = (IF lastOp'.matched THEN "Updated" ELSE "Created")
               ELSE history' = history

C11_SaveAudited == [][C11_Step]_vars

\* An update of a test case after an execution was saved.
C11_Witness ==
    /\ lastOp.op = "saveTestCase" /\ lastOp.matched /\ ~lastOp.thrown
    /\ lastOp.ret.version = 2
    /\ executions # <<>>
    /\ auditLogs[Len(auditLogs)].action = "Updated test case"
    /\ history[Len(history)].version = 2

(***************************************************************************)
(* C12: deleteTestCase and deleteTestSuite return true exactly when a      *)
(* record with the id is stored; then exactly that record leaves the       *)
(* collection and the others stay as they were, in order; otherwise they   *)
(* return false and no collection, audit log or history changes.           *)
(***************************************************************************)
C12_Step ==
    lastOp'.op \in {"deleteTestCase", "deleteTestSuite"} =>
        LET ofCases == lastOp'.op = "deleteTestCase"
            before  == IF ofCases THEN testCases ELSE testSuites
            after   == IF ofCases THEN testCases' ELSE testSuites'
            exists  == \E i \in 1..Len(before) : before[i].id = lastOp'.id
            Other(r) == r.id # lastOp'.id
        IN  /\ lastOp'.ret = exists
            /\ IF exists
               THEN /\ Len(after) = Len(before) - 1
                    /\ after = SelectSeq(before, Other)
               ELSE UNCHANGED storeVars

C12_DeleteReturnsFound == [][C12_Step]_vars

\* The first of two stored test cases deleted: the second one stays.
C12_Witness ==
    /\ lastOp.op = "deleteTestCase" /\ lastOp.ret = TRUE
    /\ Len(testCases) = 1
    /\ testCases[1].id > lastOp.id

(***************************************************************************)
(* C13: a save of a test case or suite whose partial carries an id no      *)
(* stored record has does not fail, changes no stored record, and appends  *)
(* one record whose id differs from every id already stored.               *)
(***************************************************************************)
C13_Step ==
    (/\ lastOp'.op \in {"saveTestCase", "saveTestSuite"}
     /\ lastOp'.id # NONE /\ ~lastOp'.matched) =>
        LET ofCases == lastOp'.op = "saveTestCase"
            before  == IF ofCases THEN testCases ELSE testSuites
            after   == IF ofCases THEN testCases' ELSE testSuites'
        IN  /\ ~lastOp'.thrown
            /\ Len(after) = Len(before) + 1
            /\ SubSeq(after, 1, Len(before)) = before
            /\ after[Len(after)] = lastOp'.ret
            /\ after[Len(after)].id \notin StoredIds(before)

C13_UnmatchedIdCreates == [][C13_Step]_vars

\* A suite saved under an unmatched id next to a suite stored before.
C13_Witness ==
    /\ lastOp.op = "saveTestSuite" /\ lastOp.id = UnmatchedId /\ ~lastOp.matched
    /\ Len(testSuites) = 2
    /\ testSuites[2].name = "restored"
    /\ testSuites[2].id # UnmatchedId

(***************************************************************************)
(* C14: deleteTestSuite leaves the test-case collection exactly as it was  *)
(* and every other suite unchanged.                                        *)
(***************************************************************************)
C14_Step ==
    lastOp'.op = "deleteTestSuite" =>
        LET Other(r) == r.id # lastOp'.id
        IN  /\ testCases' = testCases
            /\ testSuites' = SelectSeq(testSuites, Other)

ParentOf(id) ==
    IF FindIndex(testSuites, id) = 0 THEN NONE
    ELSE Field(testSuites[FindIndex(testSuites, id)], "parentId", NONE)

RECURSIVE AncestorAt(_, _)
AncestorAt(id, k) == IF k = 0 THEN id ELSE ParentOf(AncestorAt(id, k - 1))

C15_SuitesAcyclic ==
    \A i \in 1..Len(testSuites) :
        \A k \in 1..Len(testSuites) : AncestorAt(testSuites[i].id, k) # testSuites[i].id

(***************************************************************************)
(* C16: the totalPages returned by searchTestCases is                      *)
(* max(1, ceil(total / limit)), so 1 when no test case matches.            *)
(* The code returns Math.ceil(total / limit) unclamped: 0 pages when       *)
(* nothing matches.                                                        *)
(***************************************************************************)
Searched == lastOp.op = "searchTestCases"

\* ceil(total / limit): the least number of pages of limit items holding total.
PagesFor(total, limit) ==
    CHOOSE n \in 0..total : n * limit >= total /\ (n = 0 \/ (n - 1) * limit < total)

SameLetter(a, b) ==
    \/ a = b
    \/ a \in 65..90 /\ b = a + 32
    \/ b \in 65..90 /\ a = b + 32

OccursIn(text, query) ==
    \E off \in 0..Len(text) :
        /\ off + Len(query) <= Len(text)
        /\ \A j \in 1..Len(query) : SameLetter(text[off + j], query[j])

Supplied(filters, dim) ==
    /\ dim \in DOMAIN filters
    /\ IF dim = "suiteId" THEN filters[dim] # NONE ELSE Len(filters[dim]) > 0

Satisfies(tc, filters) ==
    /\ Supplied(filters, "searchQuery") =>
           \/ OccursIn(tc.title, filters.searchQuery)
           \/ OccursIn(tc.description, filters.searchQuery)
           \/ OccursIn(tc.id, filters.searchQuery)
           \/ \E t \in 1..Len(tc.tags) : OccursIn(tc.tags[t], filters.searchQuery)
    /\ Supplied(filters, "status") =>
           tc.status \in {filters.status[k] : k \in 1..Len(filters.status)}
    /\ Supplied(filters, "priority") =>
           tc.priority \in {filters.priority[k] : k \in 1..Len(filters.priority)}
    /\ Supplied(filters, "tags") =>
           {filters.tags[k] : k \in 1..Len(filters.tags)}
               \cap {tc.tags[k] : k \in 1..Len(tc.tags)} # {}
    /\ Supplied(filters, "suiteId") =>
           "suiteId" \in DOMAIN tc /\ tc.suiteId = filters.suiteId

C17_TotalCountsMatches ==
    Searched =>
        lastOp.result.total =
            Cardinality({i \in 1..Len(testCases) :
                            Satisfies(testCases[i], lastOp.call.filters)})

C17_Witness ==
    /\ Searched
    /\ \A dim \in {"searchQuery", "status", "priority", "tags", "suiteId"} :
           Supplied(lastOp.call.filters, dim)
    /\ lastOp.result.total >= 1
    /\ lastOp.result.total < Len(testCases)

(***************************************************************************)
(* C18: searchTestCases is idempotent and read-only: a call that repeats   *)
(* the filters, sort and pagination of the call before it, the collection  *)
(* unchanged, returns the same items in the same order with the same total *)
(* and totalPages, and no call changes a stored collection.                *)
(***************************************************************************)
C18_Step ==
    (lastOp'.op = "searchTestCases") =>
        /\ UNCHANGED storeVars
        /\ lastOp'.repeated => lastOp'.result = lastOp.result

InOrder(a, b, sort) ==
    IF sort.direction = "asc"
    THEN ~LexLess(SortValue(b, sort.field), SortValue(a, sort.field))
    ELSE ~LexLess(SortValue(a, sort.field), SortValue(b, sort.field))

Page(coll, call, p) ==
    SearchTestCases(coll, call.filters, call.sort,
                    [page |-> p, limit |-> call.pagination.limit]).testCases

RECURSIVE PagesUpTo(_, _, _)
PagesUpTo(coll, call, p) ==
    IF p = 0 THEN <<>> ELSE PagesUpTo(coll, call, p - 1) \o Page(coll, call, p)

C19_PagesSliceOrderedList ==
    Searched =>
        LET call    == lastOp.call
            L       == call.pagination.limit
            first   == (call.pagination.page - 1) * L
            page    == lastOp.result.testCases
            whole   == PagesUpTo(testCases, call, PagesFor(lastOp.result.total, L))
            matches == {i \in 1..Len(testCases) : Satisfies(testCases[i], call.filters)}
        IN  /\ Len(whole) = Cardinality(matches)
            /\ {whole[i] : i \in 1..Len(whole)} = {testCases[i] : i \in matches}
            /\ \A i, j \in 1..Len(whole) : i < j => InOrder(whole[i], whole[j], call.sort)
            /\ Len(page) <= L
            /\ Len(page) = Max(0, Min(first + L, Len(whole)) - first)
            /\ \A i \in 1..Len(page) : page[i] = whole[first + i]

C19_Witness ==
    /\ Searched
    /\ lastOp.call.sort.field = "title"
    /\ lastOp.call.pagination.page = 2
    /\ lastOp.call.pagination.limit = 2
    /\ lastOp.result.total = 3
    /\ Len(lastOp.result.testCases) = 1
    /\ lastOp.result.testCases[1] # testCases[3]

(***************************************************************************)
(* C20: in getMetrics, whenever the executions collection is non-empty the *)
(* four rates passRate, failRate, skipRate and blockRate sum to 100 (the   *)
(* Pass, Fail, Skipped and Blocked counts sum to totalExecutions), and     *)
(* when it is empty all four rates are 0.                                  *)
(* An execution saved as Not Executed is counted in totalExecutions and in *)
(* none of the four rates.                                                 *)
(***************************************************************************)
C20_RatesSumTo100 ==
    LET m     == GetMetrics(executions)
        rates == <<m.passRate, m.failRate, m.skipRate, m.blockRate>>
    IN  IF m.totalExecutions > 0
        THEN /\ \A i \in 1..4 : rates[i][2] = m.totalExecutions
             /\ rates[1][1] + rates[2][1] + rates[3][1] + rates[4][1]
                    = 100 * m.totalExecutions
        ELSE \A i \in 1..4 : rates[i][1] = 0

(***************************************************************************)
(* C21: importing a snapshot that lacks the history key succeeds, leaves   *)
(* the stored history as it was and replaces every collection the snapshot *)
(* contains by the snapshot's value; a collection absent from the snapshot *)
(* is never modified by the import.                                        *)
(* The audit log is the exception: importData appends its own 'Imported    *)
(* data' entry after the writes, to the snapshot's log or to the stored    *)
(* one.                                                                    *)
(***************************************************************************)
Stored == [testCases |-> testCases, testSuites |-> testSuites,
           testRuns |-> testRuns, executions |-> executions,
           history |-> history, auditLogs |-> auditLogs]

ImportedObject == lastOp'.op = "importData" /\ lastOp'.jsonData.kind = "object"

C21_OriginalStep ==
    ImportedObject =>
        LET data  == lastOp'.jsonData.data
            after == Stored'
        IN  /\ "history" \notin DOMAIN data =>
                   /\ lastOp'.ret = TRUE
                   /\ history' = history
                   /\ \A k \in Collections \cap DOMAIN data : after[k] = data[k]
            /\ \A k \in Collections \ DOMAIN data : after[k] = Stored[k]

C21_ImportTouchesOnlyItsKeys == [][C21_OriginalStep]_vars

\* The entry importData logs.
ImportEntry == [id |-> uuid + 1, action |-> "Imported data",
                entityType |-> "TestCase", entityId |-> NONE, timestamp |-> now]

\* C21 with the audit log set apart: the import succeeds, each of the five
\* entity collections is the snapshot's value if the snapshot has one and is
\* unchanged otherwise (history included), and the audit log is the
\* snapshot's log, or the stored one if the snapshot has none, with the
\* 'Imported data' entry appended under the cap.
C21_Step ==
    ImportedObject =>
        LET data  == lastOp'.jsonData.data
            after == Stored'
            base  == IF "auditLogs" \in DOMAIN data THEN data.auditLogs ELSE auditLogs
        IN  /\ lastOp'.ret = TRUE
            /\ \A k \in Collections \ {"auditLogs"} :
                   after[k] = IF k \in DOMAIN data THEN data[k] ELSE Stored[k]
            /\ auditLogs' = CapAudit(Append(base, ImportEntry))

C21_ImportKeepsAbsentEntities == [][C21_Step]_vars

C21_Witness ==
    /\ lastOp.op = "importData"
    /\ lastOp.jsonData.kind = "object"
    /\ ~lastOp.roundTrip
    /\ DOMAIN lastOp.jsonData.data = Collections \ {"history"}
    /\ lastOp.ret = TRUE
    /\ history # <<>>
    /\ testCases = lastOp.jsonData.data.testCases
    /\ \E i \in 1..Len(history) : history[i].testCaseId \notin StoredIds(testCases)

(***************************************************************************)
(* C22: importData given input that fails to parse, or that parses to a    *)
(* value without a recognizable snapshot shape (an empty object, a number) *)
(* aborts: it returns false and no stored collection, the audit log        *)
(* included, differs from its value before the call.                       *)
(* Only what throws is refused: text that is no JSON, and null.            *)
(***************************************************************************)
Shapeless(jsonData) ==
    \/ jsonData.kind # "object"
    \/ DOMAIN jsonData.data \cap Collections = {}

C22_Step ==
    (lastOp'.op = "importData" /\ Shapeless(lastOp'.jsonData)) =>
        /\ lastOp'.ret = FALSE
        /\ UNCHANGED storeVars

C22_MalformedImportAborts == [][C22_Step]_vars

(***************************************************************************)
(* C30: export followed by import is a round trip on the entity data:      *)
(* importData(exportData()) returns true and leaves the test-case, suite,  *)
(* run, execution and history collections identical to their values before *)
(* the export, the audit log gaining exactly one 'Imported data' entry.    *)
(* At the cap the log gains the entry and loses its oldest one.            *)
(***************************************************************************)
RoundTrip == lastOp'.op = "importData" /\ lastOp'.roundTrip

EntitiesKept ==
    UNCHANGED <<testCases, testSuites, testRuns, executions, history>>

C30_OriginalStep ==
    RoundTrip =>
        /\ lastOp'.ret = TRUE
        /\ EntitiesKept
        /\ auditLogs' = Append(auditLogs, ImportEntry)

C30_Step ==
    RoundTrip =>
        /\ lastOp'.ret = TRUE
        /\ EntitiesKept
        /\ auditLogs' = CapAudit(Append(auditLogs, ImportEntry))
        /\ auditLogs'[Len(auditLogs')] = ImportEntry
        /\ Len(auditLogs) < AUDIT_CAP => auditLogs' = Append(auditLogs, ImportEntry)

WritesOf(call) ==
    CASE call.op = "saveTestCase" -> 3
      [] call.op = "deleteTestCase" -> IF call.matched THEN 3 ELSE 0
      [] call.op = "deleteTestSuite" -> IF call.matched THEN 2 ELSE 0
      [] call.op \in {"saveTestSuite", "saveTestRun", "saveTestExecution"} -> 2

\* The store rejects one of the operation's writes.
Rejected(call) == call.budget # UNDEFINED /\ call.budget < WritesOf(call)

C23_Step ==
    (lastOp'.op \in SaveOps \cup {"deleteTestCase", "deleteTestSuite"}) =>
        (Rejected(lastOp') => lastOp'.thrown)

C23_RejectedWriteRaises == [][C23_Step]_vars

C23_Witness ==
    /\ lastOp.op = "saveTestCase"
    /\ lastOp.budget = 2
    /\ lastOp.thrown
    /\ testCases # <<>>
    /\ auditLogs # <<>>
    /\ history = <<>>

(***************************************************************************)
(* C29: a failed saveTestCase or deleteTestCase leaves the stored state as *)
(* it was: if the operation raises because one of its store writes was     *)
(* rejected, then the test-case collection, the audit log and the history  *)
(* all equal their values before the call.                                 *)
(* The three writes are made one after the other and none is undone.       *)
(***************************************************************************)
C29_Step ==
    (lastOp'.op \in {"saveTestCase", "deleteTestCase"} /\ lastOp'.thrown) =>
        UNCHANGED <<testCases, auditLogs, history>>

C29_FailedSaveLeavesStore == [][C29_Step]_vars

(***************************************************************************)
(* C24: every TestRun in storage, from the moment it is created through    *)
(* the run form and saveTestRun and after any sequence of start, pause,    *)
(* stop, navigate, recordExecution and rerunFailed, has a status in        *)
(* {Not Started, In Progress, Completed, Paused, Cancelled} and a          *)
(* currentExecutionIndex with 0 <= currentExecutionIndex <=                *)
(* executions.length.                                                      *)
(* saveTestRun builds a new run from a fixed list of properties that has   *)
(* neither status nor currentExecutionIndex.                               *)
(***************************************************************************)
RunStatuses == {"Not Started", "In Progress", "Completed", "Paused", "Cancelled"}

C24_RunsWellFormed ==
    \A r \in 1..Len(testRuns) :
        LET run == testRuns[r]
        IN  /\ "status" \in DOMAIN run
            /\ run.status \in RunStatuses
            /\ "currentExecutionIndex" \in DOMAIN run
            /\ run.currentExecutionIndex \in 0..Len(run.executions)

(***************************************************************************)
(* C25: navigate(index) is pure positioning: it performs no storage write  *)
(* (the stored run, status and currentExecutionIndex included, is          *)
(* unchanged by the call), and for every requested index, in range or not, *)
(* the in-memory cursor afterwards lies in [0, executions.length - 1].     *)
(***************************************************************************)
C25_Step ==
    (lastOp'.op = "navigate") =>
        /\ UNCHANGED <<storeVars, uuid>>
        /\ currentIndex' \in 0..(Len(testRun.executions) - 1)
        /\ lastOp'.index \in 0..(Len(testRun.executions) - 1) =>
               currentIndex' = lastOp'.index

C25_NavigateOnlyMovesCursor == [][C25_Step]_vars

C25_Witness ==
    /\ lastOp.op = "navigate"
    /\ lastOp.index = Len(testRun.executions)
    /\ currentIndex = 0
    /\ \E r \in 1..Len(testRuns) :
           /\ testRuns[r].id = testRun.id
           /\ testRuns[r].status = "In Progress"
           /\ testRuns[r].currentExecutionIndex = 1

(***************************************************************************)
(* C26: within one executor session, recordExecution changes only the      *)
(* execution at the cursor position in the stored run: every outcome       *)
(* recorded earlier in the session for another position is still present,  *)
(* with the same status, in the stored run's executions after each later   *)
(* recordExecution.                                                        *)
(* executeTestCase rebuilds the list from the run the dialog was opened    *)
(* with, which holds none of the session's outcomes.                       *)
(***************************************************************************)
C26_Step ==
    (lastOp'.op = "recordExecution" /\ lastOp'.entered /\ ~lastOp'.thrown) =>
        \A r \in 1..Len(testRuns) :
            testRuns[r].id = testRun.id =>
                \A j \in 1..Len(testRuns[r].executions) :
                    j # lastOp'.cursor + 1 =>
                        testRuns'[r].executions[j].status
                            = testRuns[r].executions[j].status

C26_RecordKeepsOtherOutcomes == [][C26_Step]_vars

(***************************************************************************)
(* C27: whenever a stored run has status Completed, every execution in its *)
(* executions list has a recorded outcome in {Pass, Fail, Skipped,         *)
(* Blocked}; no run reaches Completed while one of its executions is still *)
(* Not Executed.                                                           *)
(* Completion is decided by the cursor being on the last position alone.   *)
(***************************************************************************)
RecordedOutcomes == {"Pass", "Fail", "Skipped", "Blocked"}

C27_CompletedMeansAllRecorded ==
    \A r \in 1..Len(testRuns) :
        Field(testRuns[r], "status", "") = "Completed" =>
            \A j \in 1..Len(testRuns[r].executions) :
                testRuns[r].executions[j].status \in RecordedOutcomes

(***************************************************************************)
(* C28: whenever the executor is opened on a run whose stored status is    *)
(* In Progress (the Continue action), a recordExecution request made       *)
(* without a preceding start is effective: it records the outcome at the   *)
(* current position and advances or completes the run.                     *)
(* The executor opens with its outcome buttons shown and no execution      *)
(* start time, and executeTestCase returns at once without one.            *)
(***************************************************************************)
C28_Step ==
    (/\ lastOp.op = "open"
     /\ testRun.status = "In Progress"
     /\ lastOp'.op = "recordExecution") =>
        /\ lastOp'.entered
        /\ \E r \in 1..Len(testRuns') :
               /\ testRuns'[r].id = testRun.id
               /\ testRuns'[r].executions[currentIndex + 1].status = lastOp'.status
               /\ \/ /\ testRuns'[r].status = "In Progress"
                     /\ testRuns'[r].currentExecutionIndex = currentIndex + 1
                  \/ testRuns'[r].status = "Completed"

C28_ContinueRecordsWithoutStart == [][C28_Step]_vars

====
